---- MODULE Spec2Model ----
(***************************************************************************)
(* 2D SLAM nodes and factors of iSAM (include/isam/slam2d.h).              *)
(*                                                                         *)
(* Scalars are integers.  Headings are counted in quarter turns, so that   *)
(* cos and sin are exact: one unit is pi/2, a full turn (2 pi) is 4 units  *)
(* and the normalised range (-pi, pi] is -1 .. 2.                          *)
(* A Pose2d is the vector <<x, y, t>>, a Point2d the vector <<x, y>>.      *)
(***************************************************************************)
EXTENDS Integers, Sequences, FiniteSets, TLC

VARIABLES initialized, value, initCalls, added, last, referenced, call

vars == <<initialized, value, initCalls, added, last, referenced, call>>

(***************************************************************************)
(* Bounds of the model.                                                    *)
(***************************************************************************)
NumPoints == 1

MaxFactors == 4

MaxCoord == 1

MaxTurn == 2

MaxDim == 3

\* the nodes an anchored factor is built over: two poses and the anchors of
\* their two trajectories (all Pose2d_Node); the landmarks are Point2d_Node
PoseNodes == {1, 2}

AnchorNodes == {3, 4}

Pose2dNodes == PoseNodes \cup AnchorNodes

PointNodes == {Cardinality(Pose2dNodes) + i : i \in 1..NumPoints}

Nodes == Pose2dNodes \cup PointNodes

(***************************************************************************)
(* Manifold value types.                                                   *)
(***************************************************************************)
FullTurn == 4

HalfTurn == 2

Cos(t) == CASE t % FullTurn = 0 -> 1
            [] t % FullTurn = 1 -> 0
            [] t % FullTurn = 2 -> -1
            [] OTHER -> 0

Sin(t) == CASE t % FullTurn = 0 -> 0
            [] t % FullTurn = 1 -> 1
            [] t % FullTurn = 2 -> 0
            [] OTHER -> -1

\* normalise an angle into (-pi, pi]
standardRad(t) == IF t % FullTurn > HalfTurn THEN (t % FullTurn) - FullTurn
                  ELSE t % FullTurn

\* b = a (+) d : d, local in the frame of a, expressed in the global frame
oplus(a, d) ==
  <<a[1] + Cos(a[3]) * d[1] - Sin(a[3]) * d[2],
    a[2] + Sin(a[3]) * d[1] + Cos(a[3]) * d[2],
    standardRad(a[3] + d[3])>>

\* d = a (-) b : the global pose a expressed in the base frame b
ominus(a, b) ==
  LET dx == a[1] - b[1]
      dy == a[2] - b[2]
  IN  <<Cos(b[3]) * dx + Sin(b[3]) * dy,
        (0 - Sin(b[3])) * dx + Cos(b[3]) * dy,
        standardRad(a[3] - b[3])>>

\* a point local to the pose, expressed in the world frame
transform_from(po, pt) ==
  <<po[1] + Cos(po[3]) * pt[1] - Sin(po[3]) * pt[2],
    po[2] + Sin(po[3]) * pt[1] + Cos(po[3]) * pt[2]>>

\* a world point expressed in the frame of the pose
transform_to(po, pt) ==
  LET dx == pt[1] - po[1]
      dy == pt[2] - po[2]
  IN  <<Cos(po[3]) * dx + Sin(po[3]) * dy,
        (0 - Sin(po[3])) * dx + Cos(po[3]) * dy>>

VecSub(a, b) == [i \in 1..Len(a) |-> a[i] - b[i]]

\* a residual whose heading is left as it was computed
WrapHeading_omitted(err) == err

\* err(2) = standardRad(err(2)) on a three-vector
WrapHeading(err) == <<err[1], err[2], standardRad(err[3])>>

\* row-major matrices: a sequence of rows
MatVec(M, v) ==
  LET RECURSIVE dot(_, _)
      dot(row, k) == IF k = 0 THEN 0 ELSE dot(row, k - 1) + row[k] * v[k]
  IN  [i \in 1..Len(M) |-> dot(M[i], Len(v))]

MatMul(A, B) ==
  LET RECURSIVE dot(_, _, _)
      dot(row, j, k) == IF k = 0 THEN 0 ELSE dot(row, j, k - 1) + row[k] * B[k][j]
  IN  [i \in 1..Len(A) |-> [j \in 1..Len(B[1]) |-> dot(A[i], j, Len(B))]]

(***************************************************************************)
(* Nodes.  A graph state g is [initialized, value, initCalls, ok]; ok is   *)
(* FALSE once a require() of the running call has failed.                  *)
(***************************************************************************)
ZeroPose == <<0, 0, 0>>

ZeroPoint == <<0, 0>>

NodeInit(g, n, v) ==
  [g EXCEPT !.initialized[n] = TRUE, !.value[n] = v, !.initCalls[n] = @ + 1]

Fail(g) == [g EXCEPT !.ok = FALSE]

(***************************************************************************)
(* initialize() of the four factors.                                       *)
(***************************************************************************)
Point2d_Factor_initialize(g, nodes, prior) ==
  IF ~g.initialized[nodes[1]] THEN NodeInit(g, nodes[1], prior) ELSE g

\* a prior that forgets the initialized() test
Pose2d_Factor_initialize_unguarded(g, nodes, prior) ==
  NodeInit(g, nodes[1], prior)

Pose2d_Factor_initialize(g, nodes, prior) ==
  IF ~g.initialized[nodes[1]] THEN NodeInit(g, nodes[1], prior) ELSE g

\* the composition taken the wrong way round
PredictPose2_swapped(a, measure) == oplus(measure, a)

\* Pose2d predict = a.oplus(measure)
PredictPose2(a, measure) == oplus(a, measure)

\* Pose2d d = measure.ominus(b.ominus(b1.oplus(a)))
SolveAnchor2(a, b, b1, measure) == ominus(measure, ominus(b, oplus(b1, a)))

\* an initialize() that returns before the anchors are looked at
Pose2d_Pose2d_Factor_initialize_noanchors(g, nodes, measure) ==
  IF ~g.initialized[nodes[1]] THEN Fail(g)
  ELSE IF ~g.initialized[nodes[2]]
       THEN NodeInit(g, nodes[2], PredictPose2(g.value[nodes[1]], measure))
       ELSE g

Pose2d_Pose2d_Factor_initialize(g, nodes, measure) ==
  IF ~g.initialized[nodes[1]] THEN Fail(g)
  ELSE
    LET g1 == IF ~g.initialized[nodes[2]]
              THEN NodeInit(g, nodes[2], PredictPose2(g.value[nodes[1]], measure))
              ELSE g
    IN  IF Len(nodes) = 4
        THEN IF ~g1.initialized[nodes[3]] THEN Fail(g1)
             ELSE IF ~g1.initialized[nodes[4]]
                  THEN NodeInit(g1, nodes[4],
                         SolveAnchor2(g1.value[nodes[1]], g1.value[nodes[2]],
                                      g1.value[nodes[3]], measure))
                  ELSE g1
        ELSE g1

\* the measurement mapped with the inverse transform
Pose2d_Point2d_Factor_initialize_inverse(g, nodes, measure) ==
  IF ~g.initialized[nodes[1]] THEN Fail(g)
  ELSE IF ~g.initialized[nodes[2]]
       THEN NodeInit(g, nodes[2], transform_to(g.value[nodes[1]], measure))
       ELSE g

Pose2d_Point2d_Factor_initialize(g, nodes, measure) ==
  IF ~g.initialized[nodes[1]] THEN Fail(g)
  ELSE IF ~g.initialized[nodes[2]]
       THEN NodeInit(g, nodes[2], transform_from(g.value[nodes[1]], measure))
       ELSE g

(***************************************************************************)
(* basic_error() of the factors.                                           *)
(***************************************************************************)
Point2d_Factor_basic_error(vec, prior) == VecSub(vec[1], prior)

Pose2d_Factor_basic_error(vec, prior) == WrapHeading(VecSub(vec[1], prior))

\* the relative pose taken from p2 to p1
RelativePose_reversed(p1, p2) == ominus(p1, p2)

\* Pose2d p = p2.ominus(p1): the predicted relative pose from p1 to p2
RelativePose(p1, p2) == ominus(p2, p1)

Pose2d_Pose2d_Factor_predicted(vec) ==
  IF Len(vec) = 4
  THEN ominus(oplus(vec[4], vec[2]), oplus(vec[3], vec[1]))
  ELSE RelativePose(vec[1], vec[2])

Pose2d_Pose2d_Factor_basic_error(vec, measure) ==
  WrapHeading(VecSub(Pose2d_Pose2d_Factor_predicted(vec), measure))

Pose2d_Point2d_Factor_basic_error(vec, measure) ==
  VecSub(transform_to(vec[1], vec[2]), measure)

(***************************************************************************)
(* jacobian() of the factors with a symbolic derivative.  A Jacobian is    *)
(* the residual and the list of terms added by add_term, in order.         *)
(***************************************************************************)
Term(node, M) == [node |-> node, M |-> M]

Pose2d_Factor_jacobian(nodes, vec0, prior, sqrtinf) ==
  LET err == WrapHeading(VecSub(vec0[1], prior))
  IN  [residual |-> MatVec(sqrtinf, err),
       terms |-> <<Term(nodes[1], sqrtinf)>>]

\* a linearization that adds the term of pose2 only
Pose2d_Pose2d_Factor_jacobian_oneterm(nodes, vec0, measure, sqrtinf) ==
  LET p == ominus(vec0[2], vec0[1])
      c == Cos(vec0[1][3])
      s == Sin(vec0[1][3])
      M2 == <<<<c, s, 0>>, <<0 - s, c, 0>>, <<0, 0, 1>>>>
  IN  [residual |-> MatVec(sqrtinf, WrapHeading(VecSub(p, measure))),
       terms |-> <<Term(nodes[2], MatMul(sqrtinf, M2))>>]

Pose2d_Pose2d_Factor_jacobian(nodes, vec0, measure, sqrtinf) ==
  LET p1 == vec0[1]
      p2 == vec0[2]
      p == ominus(p2, p1)
      c == Cos(p1[3])
      s == Sin(p1[3])
      M1 == <<<<0 - c, 0 - s, p[2]>>, <<s, 0 - c, 0 - p[1]>>, <<0, 0, -1>>>>
      M2 == <<<<c, s, 0>>, <<0 - s, c, 0>>, <<0, 0, 1>>>>
      err == WrapHeading(VecSub(p, measure))
  IN  [residual |-> MatVec(sqrtinf, err),
       terms |-> <<Term(nodes[1], MatMul(sqrtinf, M1)),
                   Term(nodes[2], MatMul(sqrtinf, M2))>>]

Pose2d_Point2d_Factor_jacobian(nodes, vec0, measure, sqrtinf) ==
  LET po == vec0[1]
      pt == vec0[2]
      c == Cos(po[3])
      s == Sin(po[3])
      dx == pt[1] - po[1]
      dy == pt[2] - po[2]
      x == c * dx + s * dy
      y == (0 - s) * dx + c * dy
      M1 == <<<<0 - c, 0 - s, y>>, <<s, 0 - c, 0 - x>>>>
      M2 == <<<<c, s>>, <<0 - s, c>>>>
  IN  [residual |-> MatVec(sqrtinf, VecSub(<<x, y>>, measure)),
       terms |-> <<Term(nodes[1], MatMul(sqrtinf, M1)),
                   Term(nodes[2], MatMul(sqrtinf, M2))>>]

(***************************************************************************)
(* sqrtinf_to_string.  The stream is the sequence of the pieces written to *)
(* it; a number is written in decimal.                                     *)
(***************************************************************************)
Digit == <<"0", "1", "2", "3", "4", "5", "6", "7", "8", "9">>

RECURSIVE Digits(_)
Digits(n) == IF n < 10 THEN Digit[n + 1]
             ELSE Digits(n \div 10) \o Digit[(n % 10) + 1]

\* s << sqrtinf(r,c)
Format(v) == IF v < 0 THEN "-" \o Digits(0 - v) ELSE Digits(v)

num_rows(M) == Len(M)

num_cols(M) == IF Len(M) = 0 THEN 0 ELSE Len(M[1])

\* the two loops with the column started at 0
RECURSIVE WriteEntries_full(_, _, _, _)
WriteEntries_full(M, r, c, st) ==
  IF r >= num_rows(M) THEN st
  ELSE IF c >= num_cols(M) THEN WriteEntries_full(M, r + 1, 0, st)
  ELSE WriteEntries_full(M, r, c + 1,
         [s |-> (IF st.first THEN st.s ELSE Append(st.s, ","))
                  \o <<Format(M[r + 1][c + 1])>>,
          first |-> FALSE])

\* for (r = 0; r < nrows; r++) for (c = r; c < ncols; c++)
RECURSIVE WriteEntries(_, _, _, _)
WriteEntries(M, r, c, st) ==
  IF r >= num_rows(M) THEN st
  ELSE IF c >= num_cols(M) THEN WriteEntries(M, r + 1, r + 1, st)
  ELSE WriteEntries(M, r, c + 1,
         [s |-> (IF st.first THEN st.s ELSE Append(st.s, ","))
                  \o <<Format(M[r + 1][c + 1])>>,
          first |-> FALSE])

\* every entry of the matrix written, not the upper triangle only
sqrtinf_to_string_full(M) ==
  IF num_rows(M) # num_cols(M) THEN [ok |-> FALSE, s |-> <<>>]
  ELSE [ok |-> TRUE,
        s |-> Append(WriteEntries_full(M, 0, 0, [s |-> <<"{">>, first |-> TRUE]).s,
                     "}")]

sqrtinf_to_string(M) ==
  IF num_rows(M) # num_cols(M) THEN [ok |-> FALSE, s |-> <<>>]
  ELSE [ok |-> TRUE,
        s |-> Append(WriteEntries(M, 0, 0, [s |-> <<"{">>, first |-> TRUE]).s,
                     "}")]

(***************************************************************************)
(* The graph: factors are constructed over the nodes and initialized.      *)
(***************************************************************************)
NoCall == [op |-> "none"]

PriorPoses == {<<0, 0, 0>>, <<1, 0, 1>>}

Measures == {<<1, 0, 0>>, <<0, 1, 1>>}

PriorPoints == {<<1, 1>>}

PointMeasures == {<<2, 0>>, <<1, 1>>}

G == [initialized |-> initialized, value |-> value, initCalls |-> initCalls,
      ok |-> TRUE]

\* the nodes on which the call from g to r called init
Fresh(g, r) == {n \in Nodes : r.initCalls[n] # g.initCalls[n]}

Returned(kind, nodes, measure, r) ==
  /\ added < MaxFactors
  /\ added' = added + 1
  /\ initialized' = r.initialized
  /\ value' = r.value
  /\ initCalls' = r.initCalls
  /\ last' = [kind |-> kind, nodes |-> nodes, measure |-> measure,
              ok |-> r.ok, fresh |-> Fresh(G, r)]
  /\ referenced' = IF r.ok THEN referenced \cup {nodes[i] : i \in 1..Len(nodes)}
                            ELSE referenced
  /\ UNCHANGED call

AddPoint2dFactor ==
  \E point \in PointNodes, prior \in PriorPoints :
    Returned("Point2d_Factor", <<point>>, prior,
             Point2d_Factor_initialize(G, <<point>>, prior))

AddPose2dFactor ==
  \E pose \in Pose2dNodes, prior \in PriorPoses :
    Returned("Pose2d_Factor", <<pose>>, prior,
             Pose2d_Factor_initialize(G, <<pose>>, prior))

AddPose2dPose2dFactor ==
  \E pose1 \in Pose2dNodes, pose2 \in Pose2dNodes, measure \in Measures :
    Returned("Pose2d_Pose2d_Factor", <<pose1, pose2>>, measure,
             Pose2d_Pose2d_Factor_initialize(G, <<pose1, pose2>>, measure))

AddAnchoredFactor ==
  \E pose1 \in PoseNodes, pose2 \in PoseNodes, anchor1 \in AnchorNodes,
     anchor2 \in AnchorNodes, measure \in Measures :
    /\ pose1 # pose2
    /\ anchor1 # anchor2
    /\ Returned("Pose2d_Pose2d_Factor", <<pose1, pose2, anchor1, anchor2>>,
                measure,
                Pose2d_Pose2d_Factor_initialize(
                  G, <<pose1, pose2, anchor1, anchor2>>, measure))

AddPose2dPoint2dFactor ==
  \E pose \in PoseNodes, point \in PointNodes, measure \in PointMeasures :
    Returned("Pose2d_Point2d_Factor", <<pose, point>>, measure,
             Pose2d_Point2d_Factor_initialize(G, <<pose, point>>, measure))

NoFactor == [kind |-> "none", nodes |-> <<>>, measure |-> <<>>, ok |-> TRUE,
             fresh |-> {}]

Init ==
  /\ initialized = [n \in Nodes |-> FALSE]
  /\ value = [n \in Nodes |-> IF n \in Pose2dNodes THEN ZeroPose ELSE ZeroPoint]
  /\ initCalls = [n \in Nodes |-> 0]
  /\ added = 0
  /\ last = NoFactor
  /\ referenced = {}
  /\ call = NoCall

Next ==
  \/ AddPoint2dFactor
  \/ AddPose2dFactor
  \/ AddPose2dPose2dFactor
  \/ AddAnchoredFactor
  \/ AddPose2dPoint2dFactor

Spec == Init /\ [][Next]_vars

(***************************************************************************)
(* The functions of the factors applied to argument values.                *)
(***************************************************************************)
Headings == (0 - MaxTurn)..MaxTurn

PoseArgs == {<<x, y, t>> : x \in 0..MaxCoord, y \in 0..MaxCoord, t \in Headings}

PointArgs == {<<x, y>> : x \in 0..MaxCoord, y \in 0..MaxCoord}

\* measurements along the x axis, at every heading
MeasureArgs == {<<x, 0, t>> : x \in 0..MaxCoord, t \in Headings}

\* the poses of the anchored residual differ in their headings
TurnedPoses == {<<1, 0, t>> : t \in Headings}

Identity3 == <<<<1, 0, 0>>, <<0, 1, 0>>, <<0, 0, 1>>>>

Sqrtinf3 == {Identity3, <<<<2, 1, 0>>, <<0, 1, 3>>, <<0, 0, 2>>>>}

Sqrtinf2 == {<<<<1, 0>>, <<0, 1>>>>, <<<<2, 1>>, <<0, 3>>>>}

NodePairs == {<<1, 2>>, <<2, 1>>}

\* matrices whose entries differ from one another
Matrix(nrows, ncols, k) ==
  [r \in 1..nrows |-> [c \in 1..ncols |->
     IF k = 1 THEN (r - 1) * ncols + c ELSE 7 * (c - 1) - 11 * (r - 1)]]

\* one function is applied to one choice of arguments, on an untouched graph
Idle == call = NoCall

unchangedGraph == UNCHANGED <<initialized, value, initCalls, added, last, referenced>>

ComposeInverse ==
  /\ Idle
  /\ \E a \in PoseArgs, b \in PoseArgs :
       /\ call' = [op |-> "compose", a |-> a, b |-> b,
                   rel |-> RelativePose(b, a),
                   from_a |-> PredictPose2(a, RelativePose(b, a)),
                   from_b |-> PredictPose2(b, RelativePose(b, a))]
       /\ unchangedGraph

LinearizePose2dFactor ==
  /\ Idle
  /\ \E v \in PoseArgs, prior \in PoseArgs, sqrtinf \in Sqrtinf3 :
       /\ call' = [op |-> "Pose2d_Factor", nodes |-> <<1>>, vec |-> <<v>>,
                   measure |-> prior, sqrtinf |-> sqrtinf,
                   err |-> Pose2d_Factor_basic_error(<<v>>, prior),
                   jac |-> Pose2d_Factor_jacobian(<<1>>, <<v>>, prior, sqrtinf)]
       /\ unchangedGraph

LinearizePose2dPose2dFactor ==
  /\ Idle
  /\ \E p1 \in PoseArgs, p2 \in PoseArgs, measure \in MeasureArgs,
        sqrtinf \in Sqrtinf3, nodes \in NodePairs :
       /\ call' = [op |-> "Pose2d_Pose2d_Factor", nodes |-> nodes,
                   vec |-> <<p1, p2>>, measure |-> measure, sqrtinf |-> sqrtinf,
                   err |-> Pose2d_Pose2d_Factor_basic_error(<<p1, p2>>, measure),
                   jac |-> Pose2d_Pose2d_Factor_jacobian(nodes, <<p1, p2>>,
                                                         measure, sqrtinf)]
       /\ unchangedGraph

ErrorAnchoredFactor ==
  /\ Idle
  /\ \E p1 \in TurnedPoses, p2 \in TurnedPoses, anchor1 \in TurnedPoses,
        anchor2 \in TurnedPoses, measure \in TurnedPoses :
       /\ call' = [op |-> "Anchored_Factor", nodes |-> <<1, 2, 3, 4>>,
                   vec |-> <<p1, p2, anchor1, anchor2>>, measure |-> measure,
                   err |-> Pose2d_Pose2d_Factor_basic_error(
                             <<p1, p2, anchor1, anchor2>>, measure)]
       /\ unchangedGraph

LinearizePose2dPoint2dFactor ==
  /\ Idle
  /\ \E po \in PoseArgs, pt \in PointArgs, measure \in PointArgs,
        sqrtinf \in Sqrtinf2, nodes \in NodePairs :
       /\ call' = [op |-> "Pose2d_Point2d_Factor", nodes |-> nodes,
                   vec |-> <<po, pt>>, measure |-> measure, sqrtinf |-> sqrtinf,
                   err |-> Pose2d_Point2d_Factor_basic_error(<<po, pt>>, measure),
                   jac |-> Pose2d_Point2d_Factor_jacobian(nodes, <<po, pt>>,
                                                          measure, sqrtinf)]
       /\ unchangedGraph

WriteSqrtinf ==
  /\ Idle
  /\ \E nrows \in 0..MaxDim, ncols \in 0..MaxDim, k \in 1..2 :
       /\ nrows = 0 => ncols = 0
       /\ call' = [op |-> "sqrtinf_to_string", M |-> Matrix(nrows, ncols, k),
                   out |-> sqrtinf_to_string(Matrix(nrows, ncols, k))]
       /\ unchangedGraph

NextFunctions ==
  \/ ComposeInverse
  \/ LinearizePose2dFactor
  \/ LinearizePose2dPose2dFactor
  \/ ErrorAnchoredFactor
  \/ LinearizePose2dPoint2dFactor
  \/ WriteSqrtinf

SpecFunctions == Init /\ [][NextFunctions]_vars

(***************************************************************************)
(* Properties of the functions.                                            *)
(***************************************************************************)
SamePose(p, q) == p[1] = q[1] /\ p[2] = q[2] /\ (p[3] - q[3]) % FullTurn = 0

\* C6 as stated: for all poses a and b, a.oplus(a.ominus(b)) equals b.
C6_ComposeFromA ==
  call.op = "compose" => SamePose(call.from_a, call.b)

\* C6: for all poses a and b, b.oplus(a.ominus(b)) equals a (the headings
\* agree modulo a full turn), where a.ominus(b) is the relative pose the
\* relative factor predicts from b to a and oplus the composition its
\* initialize() predicts with.
C6_ComposeFromB ==
  call.op = "compose" => SamePose(call.from_b, call.a)

\* two poses that differ, at different headings
C6_Witness ==
  /\ call.op = "compose"
  /\ call.a[3] # call.b[3]
  /\ call.a[1] # call.b[1]
  /\ call.rel # ZeroPose
  /\ SamePose(call.from_b, call.a)

\* the heading difference a residual is computed from
RawHeading(c) ==
  CASE c.op = "Pose2d_Factor" -> c.vec[1][3] - c.measure[3]
    [] c.op = "Pose2d_Pose2d_Factor" -> c.vec[2][3] - c.vec[1][3] - c.measure[3]
    [] c.op = "Anchored_Factor" ->
         (c.vec[4][3] + c.vec[2][3]) - (c.vec[3][3] + c.vec[1][3]) - c.measure[3]

Normalized(e, raw) ==
  /\ e > 0 - HalfTurn
  /\ e <= HalfTurn
  /\ (e - raw) % FullTurn = 0

\* C7: the heading component of the residual of Pose2d_Factor and of
\* Pose2d_Pose2d_Factor (with and without anchors) lies in (-pi, pi] and is
\* congruent modulo 2 pi to the estimated or predicted heading minus the
\* measured one; the residual carried by the symbolic jacobian() is the
\* weighted such residual.
C7_AngularResidualNormalized ==
  /\ call.op \in {"Pose2d_Factor", "Pose2d_Pose2d_Factor", "Anchored_Factor"} =>
       Normalized(call.err[3], RawHeading(call))
  /\ call.op \in {"Pose2d_Factor", "Pose2d_Pose2d_Factor"} =>
       \E e \in (0 - HalfTurn)..HalfTurn :
         /\ Normalized(e, RawHeading(call))
         /\ call.jac.residual[3] = call.sqrtinf[3][3] * e

\* an estimate at -pi/2 against a measurement at pi: the difference of -3pi/2
\* is reported as pi/2
C7_Witness ==
  /\ call.op = "Pose2d_Pose2d_Factor"
  /\ RawHeading(call) = 0 - 3
  /\ call.err[3] = 1
  /\ call.sqrtinf = Identity3
  /\ call.jac.residual[3] = 1

BasicError(c) ==
  CASE c.op = "Pose2d_Factor" -> Pose2d_Factor_basic_error(c.vec, c.measure)
    [] c.op = "Pose2d_Pose2d_Factor" ->
         Pose2d_Pose2d_Factor_basic_error(c.vec, c.measure)
    [] c.op = "Pose2d_Point2d_Factor" ->
         Pose2d_Point2d_Factor_basic_error(c.vec, c.measure)

\* C8: the residual of the Jacobian returned by a symbolic jacobian() equals
\* sqrtinf * basic_error(v) at the linearization point v, and the Jacobian has
\* exactly one term per node of the factor, in node order.
C8_JacobianResidual ==
  call.op \in {"Pose2d_Factor", "Pose2d_Pose2d_Factor", "Pose2d_Point2d_Factor"} =>
    /\ call.jac.residual = MatVec(call.sqrtinf, BasicError(call))
    /\ Len(call.jac.terms) = Len(call.nodes)
    /\ \A i \in 1..Len(call.nodes) : call.jac.terms[i].node = call.nodes[i]

\* a relative factor between nodes 2 and 1, with a weight that is not the
\* identity and a residual whose heading wrapped
C8_Witness ==
  /\ call.op = "Pose2d_Pose2d_Factor"
  /\ call.nodes = <<2, 1>>
  /\ call.sqrtinf # Identity3
  /\ RawHeading(call) > HalfTurn
  /\ call.jac.residual # <<0, 0, 0>>
  /\ call.jac.residual = MatVec(call.sqrtinf, call.err)

\* the positions (r, c), r <= c, of an n x n matrix
UpperPositions(n) == {rc \in (1..n) \X (1..n) : rc[1] <= rc[2]}

\* the number of upper positions up to and including rc in row-major order
Rank(n, rc) ==
  Cardinality({q \in UpperPositions(n) :
                 q[1] < rc[1] \/ (q[1] = rc[1] /\ q[2] <= rc[2])})

\* C9: sqrtinf_to_string writes an opening brace, the n(n+1)/2 entries (r,c)
\* with r <= c in row-major order separated by single commas, and a closing
\* brace; no entry below the diagonal appears; a matrix that is not square is
\* rejected and no string is produced.
C9_UpperTriangularList ==
  call.op = "sqrtinf_to_string" =>
    LET M == call.M
        n == num_rows(M)
        k == (n * (n + 1)) \div 2
        s == call.out.s
    IN  IF num_rows(M) # num_cols(M)
        THEN ~call.out.ok /\ s = <<>>
        ELSE /\ call.out.ok
             /\ Len(s) = IF k = 0 THEN 2 ELSE 2 * k + 1
             /\ s[1] = "{"
             /\ s[Len(s)] = "}"
             /\ \A rc \in UpperPositions(n) :
                  s[2 * Rank(n, rc)] = Format(M[rc[1]][rc[2]])
             /\ \A i \in 1..(k - 1) : s[2 * i + 1] = ","
             /\ \A r \in 1..n, c \in 1..n :
                  r > c => \A i \in 1..Len(s) : s[i] # Format(M[r][c])

\* the 3 x 3 matrix with negative entries below the diagonal
C9_Witness ==
  /\ call.op = "sqrtinf_to_string"
  /\ call.M = Matrix(3, 3, 2)
  /\ call.out.ok
  /\ call.out.s = <<"{", "0", ",", "7", ",", "14", ",", "-4", ",", "3", ",",
                    "-8", "}">>

(***************************************************************************)
(* Properties of initialize().                                             *)
(***************************************************************************)
Called == added' # added

ValuesOf(nodes) == [i \in 1..Len(nodes) |-> value[nodes[i]]]

Anchored(f) == f.kind = "Pose2d_Pose2d_Factor" /\ Len(f.nodes) = 4

Relative(f) == f.kind = "Pose2d_Pose2d_Factor" /\ Len(f.nodes) = 2

\* C1: when initialize() fails a precondition, no node's initialized flag and
\* no node's value differs from before the call.
C1_FailedInitializeLeavesGraph ==
  [][(Called /\ ~last'.ok) => (initialized' = initialized /\ value' = value)]_vars

\* C2: a node is initialized exactly once: once a node is initialized no later
\* initialize() call calls init on it again or changes its value, and it
\* never goes back to uninitialized.
C2_InitializedOnce ==
  [][\A n \in Nodes :
       /\ initCalls'[n] <= 1
       /\ initialized[n] =>
            /\ initialized'[n]
            /\ value'[n] = value[n]
            /\ initCalls'[n] = initCalls[n]]_vars

\* a prior was handed a node that was already initialized to another value
C2_Witness ==
  /\ last.kind = "Pose2d_Factor"
  /\ last.ok
  /\ last.fresh = {}
  /\ initialized[last.nodes[1]]
  /\ value[last.nodes[1]] # last.measure

\* C3: after initialize() of an anchored factor whose pose1, pose2 and anchor1
\* were initialized and whose anchor2 was not, basic_error at the four node
\* values is the zero vector.
C3_AnchoredResidualZero ==
  (Anchored(last) /\ last.ok /\ last.fresh = {last.nodes[4]})
    => Pose2d_Pose2d_Factor_basic_error(ValuesOf(last.nodes), last.measure)
         = <<0, 0, 0>>

\* C4: Pose2d_Pose2d_Factor::initialize() fails when pose1 is uninitialized;
\* with pose1 initialized and pose2 not, pose2 becomes
\* pose1.value().oplus(measure); an initialized pose2 keeps its value; the
\* value of pose1 never changes.
C4_RelativeInitialize ==
  [][(Called /\ last'.kind = "Pose2d_Pose2d_Factor") =>
       LET pose1 == last'.nodes[1]
           pose2 == last'.nodes[2]
       IN  /\ ~initialized[pose1] => ~last'.ok
           /\ (initialized[pose1] /\ ~initialized[pose2]) =>
                /\ initialized'[pose2]
                /\ value'[pose2] = oplus(value[pose1], last'.measure)
           /\ initialized[pose2] => value'[pose2] = value[pose2]
           /\ value'[pose1] = value[pose1]]_vars

\* a relative factor predicted its second pose from a pose that is not at the
\* origin
C4_Witness ==
  /\ Relative(last)
  /\ last.ok
  /\ last.fresh = {last.nodes[2]}
  /\ value[last.nodes[1]] # ZeroPose
  /\ value[last.nodes[2]] = oplus(value[last.nodes[1]], last.measure)

\* C5: Pose2d_Point2d_Factor::initialize() fails when the pose is
\* uninitialized and otherwise initializes an uninitialized point to
\* pose.transform_from(measure), the world point whose coordinates in the
\* frame of the pose are the measurement; a pose at the origin with zero
\* heading gives the measurement itself.
C5_ObservationInitialize ==
  [][(Called /\ last'.kind = "Pose2d_Point2d_Factor") =>
       LET pose == last'.nodes[1]
           point == last'.nodes[2]
       IN  /\ ~initialized[pose] => ~last'.ok
           /\ (initialized[pose] /\ ~initialized[point]) =>
                /\ initialized'[point]
                /\ value'[point] = transform_from(value[pose], last'.measure)
                /\ transform_to(value[pose], value'[point]) = last'.measure
                /\ value[pose] = ZeroPose => value'[point] = last'.measure]_vars

\* the landmark scenario: a pose at (0,0,0) observes local (2,0)
C5_Witness ==
  /\ last.kind = "Pose2d_Point2d_Factor"
  /\ last.ok
  /\ last.fresh = {last.nodes[2]}
  /\ value[last.nodes[1]] = <<0, 0, 0>>
  /\ last.measure = <<2, 0>>
  /\ value[last.nodes[2]] = <<2, 0>>

\* C10: when initialize() returns without a precondition failure every node
\* of the factor is initialized, so no node referenced by an initialized
\* factor is uninitialized.
C10_InitializedFactorNodes ==
  /\ last.ok => \A i \in 1..Len(last.nodes) : initialized[last.nodes[i]]
  /\ \A n \in referenced : initialized[n]

\* an anchored factor returned after initializing its second anchor
C10_Witness ==
  /\ Anchored(last)
  /\ last.ok
  /\ last.nodes[4] \in last.fresh
  /\ last.nodes[4] \in referenced

====
